---- MODULE Spec2Model ----
(***************************************************************************)
(* Model of the match-and-acquire pipeline of spotify-downloader:          *)
(*   - SpotifyDownloader.search_youtube_music (the duration scorer),       *)
(*   - SpotifyDownloader.download_single_track (the per-track              *)
(*     orchestrator),                                                      *)
(*   - the batch loops of SpotifyDownloader.download_album /               *)
(*     download_playlist and TelegramBot.download_album /                  *)
(*     download_playlist (specification Spec),                             *)
(*   - SpotifyDownloader.get_playlist_tracks (SpecPlaylist),               *)
(*   - sessions of requests over the six flows of download_from_url and    *)
(*     download_and_send (SpecSession),                                    *)
(*   - the bot's confirm/cancel exchange, handle_message and               *)
(*     button_callback (SpecChat),                                         *)
(*   - sanitize_filename and the file names built from it (SpecSanitize),  *)
(*   - extract_spotify_info and download_from_url (SpecUrl),               *)
(*   - the CLI run from an empty directory under a user interrupt          *)
(*     (SpecCli).                                                          *)
(* External collaborators (catalog, video platform, tagger, chat           *)
(* transport, file system faults) are nondeterministic choices.            *)
(***************************************************************************)
EXTENDS Integers, Sequences, FiniteSets, TLC

VARIABLES
    \* ---- batch run (Spec) ----
    mode,           \* "cli" (SpotifyDownloader) or "bot" (TelegramBot)
    kind,           \* "album" or "playlist"
    pc,             \* position of the run
    tracks,         \* the fetched collection, in catalog order
    files,          \* the paths that exist in downloads_dir
    idx,            \* 1-based position of the loop in tracks (0 before the loop)
    successful,     \* the loop's counters
    failed,
    attempts,       \* indices of the tracks handed to download_single_track, in order
    results,        \* per processed track: how it ended, and whether it was
                    \* counted in successful
    user_data,      \* the bot's per-user statistics
    \* ---- the download_single_track call in progress ----
    video_info,     \* result of search_youtube_music (index, 0 for None)
    candidates,     \* number of entries with a duration that the search returned
    existedAtCall,  \* final_mp3_path existed when the call started
    filesAtCall,    \* files when the call started
    artFetch,       \* download_album_art: "none" (not called), "ok", "failed"
    audioCalls,     \* number of download_audio invocations of this call
    audioFlag,      \* download_audio's return value: "none" (not called), "ok", "failed"
    injected,       \* inject_metadata: "none" (not called), "ok", "failed"
    ret,            \* return value of download_single_track
    outcome,        \* the path on which it returned
    \* ---- scorer specification (SpecScorer) ----
    spc,            \* "input" before search_youtube_music runs, "searched" after
    info,           \* what ydl.extract_info returned (or that it raised)
    duration_ms,    \* the target duration handed to search_youtube_music
    best_match,     \* its return value: index of the chosen entry, 0 for None
    \* ---- get_playlist_tracks (SpecPlaylist) ----
    plpc,           \* "start", "page" (a page is in results), "done"
    pages,          \* the playlist as the catalog serves it: a chain of pages
    cursor,         \* number of pages fetched so far; results is pages[cursor]
    pltracks,       \* the local list tracks
    plret,          \* the return value: None, or a list of tracks
    \* ---- a session of requests, all six flows (SpecSession) ----
    client,         \* "cli" (download_from_url) or "bot" (download_and_send)
    flow,           \* content type of the request: "track", "album", "playlist"
    sepc,           \* "idle" between requests, "loop" while tracks are processed,
                    \* "escaped" when an exception left the request's entry point
    lookup,         \* the request's catalog lookup: "none", "ok", "failed"
    batch,          \* the request's tracks (one for a single-track request)
    pos,            \* 1-based position in batch
    counts,         \* the batch flow's locals successful and failed
    stats,          \* context.user_data: total_downloads, failed_downloads
    disk,           \* names of the tracks whose mp3 exists in downloads_dir
    requests,       \* number of requests made so far
    report,         \* what the request's caller was told: return value or message
    attempted,      \* tracks of this request handed to download_single_track
    ended,          \* history: how many tracks of the session ended in each way
    dispositions,   \* history: what became of the file after each failed upload
    lines,          \* the user-visible failure lines of this request
    failures,       \* history: the terminal failures of this request
    signals,        \* the progress signals of this request, in order
    \* ---- the bot's confirm/cancel exchange with one user (SpecChat) ----
    inbox,          \* updates sent by the user and not handled yet, oldest first
    prompts,        \* the prompts sent so far; open while the keyboard is shown
    pending_url,    \* context.user_data['pending_url'] (NoUrl when absent)
    runs,           \* history: every download_and_send call, in order
    updates,        \* number of updates the user has sent
    \* ---- sanitize_filename and the output paths (SpecSanitize) ----
    sfpc,           \* "input" before the functions run, "computed" after
    title,          \* metadata['title'], a sequence of characters
    artist,         \* metadata['artist']
    sanitized,      \* sanitize_filename(title)
    orch_path,      \* final_mp3_path of download_single_track (file name)
    bot_path,       \* mp3_path of the bot (file name)
    \* ---- extract_spotify_info and download_from_url (SpecUrl) ----
    upc,            \* "input" before download_from_url runs, "returned" after
    input_url,      \* the argument spotify_url, a sequence of characters
    extracted,      \* what extract_spotify_info returned: content_type, content_id
    handler,        \* the method download_from_url called ("none": none)
    handled         \* download_from_url returned False without calling a handler

scorerVars == <<spc, info, duration_ms, best_match>>
runVars == <<mode, kind, pc, tracks, files, idx, successful, failed, attempts,
             results, user_data>>
callVars == <<video_info, candidates, existedAtCall, filesAtCall, artFetch, audioCalls,
              audioFlag, injected, ret, outcome>>
playlistVars == <<plpc, pages, cursor, pltracks, plret>>
sessionVars == <<client, flow, sepc, lookup, batch, pos, counts, stats, disk,
                 requests, report, attempted, ended, dispositions, lines, failures,
                 signals>>
chatVars == <<inbox, prompts, pending_url, runs, updates>>
sanitizeVars == <<sfpc, title, artist, sanitized, orch_path, bot_path>>
urlVars == <<upc, input_url, extracted, handler, handled>>
\* the variables the batch run leaves alone
outsideRun == <<scorerVars, playlistVars, sessionVars, chatVars,
    sanitizeVars, urlVars>>
\* the variables the scorer specification leaves alone
outsideScorer == <<runVars, callVars, playlistVars, sessionVars, chatVars,
    sanitizeVars, urlVars>>
\* the variables the playlist specification leaves alone
outsidePlaylist == <<runVars, callVars, scorerVars, sessionVars, chatVars,
    sanitizeVars, urlVars>>
\* the variables the session specification leaves alone
outsideSession == <<runVars, callVars, scorerVars, playlistVars, chatVars,
    sanitizeVars, urlVars>>
\* the variables the chat specification leaves alone
outsideChat == <<runVars, callVars, scorerVars, playlistVars, sessionVars,
    sanitizeVars, urlVars>>
\* the variables the sanitize specification leaves alone
outsideSanitize == <<runVars, callVars, scorerVars, playlistVars, sessionVars,
    chatVars, urlVars>>
\* the variables the URL specification leaves alone
outsideUrl == <<runVars, callVars, scorerVars, playlistVars, sessionVars,
    chatVars, sanitizeVars>>
vars == <<runVars, callVars, scorerVars, playlistVars, sessionVars, chatVars,
          sanitizeVars, urlVars>>

----------------------------------------------------------------------------
(* Bounds of the model *)

MaxEntries == 3     \* longest candidate list of the scorer specification
MaxTracks == 3      \* largest fetched collection

----------------------------------------------------------------------------
(* Program constants *)

Tolerance == 10000          \* duration_diff < 10000
MsPerSecond == 1000         \* entry['duration'] * 1000
Infinity == 1000000000      \* float('inf'): above every difference of the model

None == 0                   \* the index that stands for Python's None

----------------------------------------------------------------------------
(* Candidate entries as yt-dlp returns them.  kind tells which of the      *)
(* shapes the code distinguishes the entry has:                            *)
(*   "falsy"        None or an empty dict         (not entry)              *)
(*   "no_key"       a dict without 'duration'     ('duration' not in entry)*)
(*   "none_value"   {'duration': None}            (passes both tests)      *)
(*   "duration"     {'duration': <seconds>}                                *)

DurationSeconds == {160, 175, 185, 500}

Entry ==
    [kind : {"falsy", "no_key", "none_value"}, duration : {0}]
        \cup [kind : {"duration"}, duration : DurationSeconds]

RECURSIVE SeqsUpTo(_, _)
SeqsUpTo(S, n) ==
    IF n = 0 THEN {<<>>}
    ELSE LET shorter == SeqsUpTo(S, n - 1)
         IN  shorter \cup {Append(s, x) : s \in {t \in shorter : Len(t) = n - 1}, x \in S}

\* ydl.extract_info(...): it raises, returns nothing usable, or returns entries
InfoOf(entryLists) ==
    [status : {"raise", "no_entries"}, entries : {<<>>}]
        \cup [status : {"ok"}, entries : entryLists]

Abs(x) == IF x < 0 THEN -x ELSE x

\* the test that skips an entry:  if not entry or 'duration' not in entry
SkipEntry(entry) == entry.kind \in {"falsy", "no_key"}

\* the loop over entries; entry['duration'] * 1000 raises TypeError on None
RECURSIVE ScanEntries(_, _, _, _, _)
ScanEntries(entries, i, target, best, best_diff) ==
    IF i > Len(entries) THEN [raised |-> FALSE, best_match |-> best]
    ELSE LET entry == entries[i] IN
         IF SkipEntry(entry)
         THEN ScanEntries(entries, i + 1, target, best, best_diff)
         ELSE IF entry.kind = "none_value"
         THEN [raised |-> TRUE, best_match |-> best]
         ELSE LET entry_duration == entry.duration * MsPerSecond
                  duration_diff == Abs(entry_duration - target)
              IN  IF duration_diff < Tolerance /\ duration_diff < best_diff
                  THEN ScanEntries(entries, i + 1, target, i, duration_diff)
                  ELSE ScanEntries(entries, i + 1, target, best, best_diff)

\* search_youtube_music: the index of the returned entry, None when it
\* returns None (no info, no match, or an exception caught by its handler)
search_youtube_music(inf, target) ==
    IF inf.status = "raise" THEN None
    ELSE IF inf.status = "no_entries" THEN None
    ELSE LET r == ScanEntries(inf.entries, 1, target, None, Infinity)
         IN  IF r.raised THEN None ELSE r.best_match

----------------------------------------------------------------------------
(* Tracks, paths and the decisions of download_single_track *)

Names == {"a", "b"}     \* sanitized "{title} - {artist}" strings

\* a canonical track: the fields the orchestrator reads
Track == [name : Names, album_art_url : BOOLEAN, duration_ms : {180000}]

safe_title(metadata) == metadata.name
final_mp3_path(metadata) == <<safe_title(metadata), "mp3">>
album_art_path(metadata) == <<safe_title(metadata), "cover">>

Mp3Paths == {<<n, "mp3">> : n \in Names}

\* what the catalog projections can return: get_album_tracks gives every
\* track the album's own cover (album['images']), get_playlist_tracks the
\* cover of each track's album
Collections(k) ==
    IF k = "album"
    THEN {c \in SeqsUpTo(Track, MaxTracks) :
             \A i, j \in 1..Len(c) : c[i].album_art_url = c[j].album_art_url}
    ELSE SeqsUpTo(Track, MaxTracks)

\* what the search of one track may return in a batch run
SearchInfos ==
    InfoOf(SeqsUpTo(Entry, 1))
        \cup {[status |-> "ok",
               entries |-> <<[kind |-> "none_value", duration |-> 0],
                             [kind |-> "duration", duration |-> 185]>>]}

NotFoundNever(v) == FALSE

\* if not video_info: ... return False
NotFound(v) == v = None

AlreadyExistsNever(path, fs) == FALSE

\* if final_mp3_path.exists(): ... return True
AlreadyExists(path, fs) == path \in fs

AcquisitionFailedByFlag(success, path, fs) == ~success

\* if not success or not final_mp3_path.exists(): ... return False
AcquisitionFailed(success, path, fs) == ~success \/ path \notin fs

\* the value download_single_track returns after inject_metadata and a
\* cleanup that did not raise: inject_metadata's result is not read
ResultAfterTagging(tagged) == TRUE

AfterItemStopOnFailure(success) == IF success THEN "loop" ELSE "summary"

\* the for loop goes on to the next track whatever the last one returned
AfterItem(success) == "loop"

CountFailedNever(n, success) == n

\* successful += 1 / failed += 1
CountSuccessful(n, success) == IF success THEN n + 1 ELSE n
CountFailed(n, success) == IF success THEN n ELSE n + 1

NoCall ==
    /\ video_info = None
    /\ candidates = 0
    /\ existedAtCall = FALSE
    /\ filesAtCall = {}
    /\ artFetch = "none"
    /\ audioCalls = 0
    /\ audioFlag = "none"
    /\ injected = "none"
    /\ ret = FALSE
    /\ outcome = "none"

ScorerIdle ==
    /\ spc = "idle"
    /\ info = [status |-> "no_entries", entries |-> <<>>]
    /\ duration_ms = 0
    /\ best_match = None

\* the value that stands for get_playlist_tracks returning None
NoneTracks == [isNone |-> TRUE, tracks |-> <<>>]

PlaylistIdle ==
    /\ plpc = "idle"
    /\ pages = <<>>
    /\ cursor = 0
    /\ pltracks = <<>>
    /\ plret = NoneTracks

NoStats == [total_downloads |-> 0, failed_downloads |-> 0]
NoCounts == [successful |-> 0, failed |-> 0]
NoneEnded == [delivered |-> 0, failedDownload |-> 0, failedUpload |-> 0,
              failedOther |-> 0]

SessionIdle ==
    /\ client = "cli"
    /\ flow = "none"
    /\ sepc = "off"
    /\ lookup = "none"
    /\ batch = <<>>
    /\ pos = 0
    /\ counts = NoCounts
    /\ stats = NoStats
    /\ disk = {}
    /\ requests = 0
    /\ report = "none"
    /\ attempted = 0
    /\ ended = NoneEnded
    /\ dispositions = {}
    /\ lines = <<>>
    /\ failures = <<>>
    /\ signals = <<>>

SanitizeIdle ==
    /\ sfpc = "idle"
    /\ title = <<>>
    /\ artist = <<>>
    /\ sanitized = <<>>
    /\ orch_path = <<>>
    /\ bot_path = <<>>

\* the pair (None, None) of extract_spotify_info
NoInfo == [content_type |-> "None", content_id |-> <<>>]

UrlIdle ==
    /\ upc = "idle"
    /\ input_url = <<>>
    /\ extracted = NoInfo
    /\ handler = "none"
    /\ handled = FALSE

NoUrl == [type |-> "none", id |-> 0]

ChatIdle ==
    /\ inbox = <<>>
    /\ prompts = <<>>
    /\ pending_url = NoUrl
    /\ runs = <<>>
    /\ updates = 0

----------------------------------------------------------------------------
(* The batch run *)

Init ==
    /\ mode \in {"cli", "bot"}
    /\ kind \in {"album", "playlist"}
    /\ pc = "fetch"
    /\ tracks = <<>>
    /\ files \in SUBSET Mp3Paths
    /\ idx = 0
    /\ successful = 0
    /\ failed = 0
    /\ attempts = <<>>
    /\ results = <<>>
    /\ user_data = [total_downloads |-> 0, failed_downloads |-> 0]
    /\ NoCall
    /\ ScorerIdle
    /\ PlaylistIdle
    /\ SessionIdle
    /\ ChatIdle
    /\ SanitizeIdle
    /\ UrlIdle

\* tracks = get_album_tracks(id) / get_playlist_tracks(id); if not tracks: return
FetchTracks ==
    /\ pc = "fetch"
    /\ \E lookupFailed \in BOOLEAN, collection \in Collections(kind) :
          IF lookupFailed \/ collection = <<>>
          THEN /\ pc' = "aborted"
               /\ UNCHANGED tracks
          ELSE /\ tracks' = collection
               /\ pc' = "loop"
    /\ UNCHANGED <<mode, kind, files, idx, successful, failed, attempts,
                   results, user_data>>
    /\ UNCHANGED callVars
    /\ UNCHANGED outsideRun

\* for metadata in tracks: success = download_single_track(metadata)
NextTrack ==
    /\ pc = "loop"
    /\ idx < Len(tracks)
    /\ idx' = idx + 1
    /\ attempts' = Append(attempts, idx + 1)
    /\ existedAtCall' = (final_mp3_path(tracks[idx + 1]) \in files)
    /\ filesAtCall' = files
    /\ pc' = "search"
    /\ UNCHANGED <<mode, kind, tracks, files, successful, failed, results, user_data>>
    /\ UNCHANGED <<video_info, candidates, artFetch, audioCalls, audioFlag, injected,
                   ret, outcome>>
    /\ UNCHANGED outsideRun

\* the loop is exhausted
EndLoop ==
    /\ pc = "loop"
    /\ idx >= Len(tracks)
    /\ pc' = "summary"
    /\ UNCHANGED <<mode, kind, tracks, files, idx, successful, failed, attempts,
                   results, user_data>>
    /\ UNCHANGED callVars
    /\ UNCHANGED outsideRun

\* download_single_track, lines 344-365: search, then the already-exists test
SearchAndPrecheck ==
    /\ pc = "search"
    /\ \E inf \in SearchInfos :
          LET metadata == tracks[idx]
              v == search_youtube_music(inf, metadata.duration_ms)
          IN  /\ video_info' = v
              /\ candidates' = Cardinality({i \in 1..Len(inf.entries) :
                                               inf.entries[i].kind = "duration"})
              /\ IF NotFound(v)
                 THEN /\ ret' = FALSE
                      /\ outcome' = "NotFound"
                      /\ pc' = "returned"
                 ELSE IF AlreadyExists(final_mp3_path(metadata), files)
                 THEN /\ ret' = TRUE
                      /\ outcome' = "Skipped"
                      /\ pc' = "returned"
                 ELSE /\ pc' = "art"
                      /\ UNCHANGED <<ret, outcome>>
    /\ UNCHANGED <<mode, kind, tracks, files, idx, successful, failed, attempts,
                   results, user_data>>
    /\ UNCHANGED <<existedAtCall, filesAtCall, artFetch, audioCalls, audioFlag, injected>>
    /\ UNCHANGED outsideRun

\* lines 367-368: if metadata['album_art_url']: download_album_art(...)
\* download_album_art catches every exception; its result is not read
FetchArtwork ==
    /\ pc = "art"
    /\ LET metadata == tracks[idx] IN
          IF metadata.album_art_url
          THEN \E fetched \in BOOLEAN :
                  /\ artFetch' = IF fetched THEN "ok" ELSE "failed"
                  /\ files' = IF fetched THEN files \cup {album_art_path(metadata)}
                              ELSE files
          ELSE UNCHANGED <<artFetch, files>>
    /\ pc' = "audio"
    /\ UNCHANGED <<mode, kind, tracks, idx, successful, failed, attempts,
                   results, user_data>>
    /\ UNCHANGED <<video_info, candidates, existedAtCall, filesAtCall, audioCalls,
                   audioFlag, injected, ret, outcome>>
    /\ UNCHANGED outsideRun

\* lines 370-376: success = download_audio(...); the collaborator reports
\* success or failure and, independently, leaves the mp3 file or not
DownloadAudio ==
    /\ pc = "audio"
    /\ \E success \in BOOLEAN, written \in BOOLEAN :
          LET metadata == tracks[idx]
              after == IF written THEN files \cup {final_mp3_path(metadata)} ELSE files
          IN  /\ audioCalls' = audioCalls + 1
              /\ audioFlag' = IF success THEN "ok" ELSE "failed"
              /\ files' = after
              /\ IF AcquisitionFailed(success, final_mp3_path(metadata), after)
                 THEN /\ ret' = FALSE
                      /\ outcome' = "DownloadFailed"
                      /\ pc' = "returned"
                 ELSE /\ pc' = "tag"
                      /\ UNCHANGED <<ret, outcome>>
    /\ UNCHANGED <<mode, kind, tracks, idx, successful, failed, attempts,
                   results, user_data>>
    /\ UNCHANGED <<video_info, candidates, existedAtCall, filesAtCall, artFetch,
                   injected>>
    /\ UNCHANGED outsideRun

\* line 379: inject_metadata(...) catches every exception and returns
\* True or False; it never removes the audio file
InjectMetadata ==
    /\ pc = "tag"
    /\ \E tagged \in BOOLEAN : injected' = IF tagged THEN "ok" ELSE "failed"
    /\ pc' = "cleanup"
    /\ UNCHANGED <<mode, kind, tracks, files, idx, successful, failed, attempts,
                   results, user_data>>
    /\ UNCHANGED <<video_info, candidates, existedAtCall, filesAtCall, artFetch,
                   audioCalls, audioFlag, ret, outcome>>
    /\ UNCHANGED outsideRun

\* lines 381-392: if album_art_path.exists(): album_art_path.unlink();
\* return True.  unlink may raise; the handler of line 389 returns False
CleanupAndReturn ==
    /\ pc = "cleanup"
    /\ LET metadata == tracks[idx]
           cover == album_art_path(metadata)
       IN  IF cover \in files
           THEN \E unlinked \in BOOLEAN :
                   IF unlinked
                   THEN /\ files' = files \ {cover}
                        /\ ret' = ResultAfterTagging(injected = "ok")
                        /\ outcome' = "Success"
                   ELSE /\ ret' = FALSE
                        /\ outcome' = "Error"
                        /\ UNCHANGED files
           ELSE /\ ret' = ResultAfterTagging(injected = "ok")
                /\ outcome' = "Success"
                /\ UNCHANGED files
    /\ pc' = "returned"
    /\ UNCHANGED <<mode, kind, tracks, idx, successful, failed, attempts,
                   results, user_data>>
    /\ UNCHANGED <<video_info, candidates, existedAtCall, filesAtCall, artFetch,
                   audioCalls, audioFlag, injected>>
    /\ UNCHANGED outsideRun

\* the locals of the finished call go out of scope
ForgetCall ==
    /\ video_info' = None
    /\ candidates' = 0
    /\ existedAtCall' = FALSE
    /\ filesAtCall' = {}
    /\ artFetch' = "none"
    /\ audioCalls' = 0
    /\ audioFlag' = "none"
    /\ injected' = "none"
    /\ ret' = FALSE
    /\ outcome' = "none"

\* SpotifyDownloader.download_album / download_playlist, the loop body after
\* the call: if success: successful += 1 else: failed += 1
CountCli ==
    /\ pc = "returned"
    /\ mode = "cli"
    /\ successful' = CountSuccessful(successful, ret)
    /\ failed' = CountFailed(failed, ret)
    /\ results' = Append(results, [status |-> outcome, success |-> ret])
    /\ pc' = AfterItem(ret)
    /\ ForgetCall
    /\ UNCHANGED <<mode, kind, tracks, files, idx, attempts, user_data>>
    /\ UNCHANGED outsideRun

\* TelegramBot.download_album / download_playlist, the loop body after the
\* call: send the file, unlink it, count.  send_audio and unlink may raise;
\* the handler counts the track as failed
DeliverBot ==
    /\ pc = "returned"
    /\ mode = "bot"
    /\ LET metadata == tracks[idx]
           mp3_path == final_mp3_path(metadata)
       IN  IF ret /\ mp3_path \in files
           THEN \E sent \in BOOLEAN, unlinked \in BOOLEAN :
                   LET delivered == sent /\ unlinked IN
                   /\ files' = IF delivered THEN files \ {mp3_path} ELSE files
                   /\ successful' = CountSuccessful(successful, delivered)
                   /\ failed' = CountFailed(failed, delivered)
                   /\ results' = Append(results,
                          [status |-> IF delivered THEN outcome
                                      ELSE IF sent THEN "UnlinkFailed"
                                      ELSE "UploadFailed",
                           success |-> delivered])
                   /\ pc' = AfterItem(delivered)
           ELSE /\ successful' = CountSuccessful(successful, FALSE)
                /\ failed' = CountFailed(failed, FALSE)
                /\ results' = Append(results,
                       [status |-> IF ret THEN "FileMissing" ELSE outcome,
                        success |-> FALSE])
                /\ pc' = AfterItem(FALSE)
                /\ UNCHANGED files
    /\ ForgetCall
    /\ UNCHANGED <<mode, kind, tracks, idx, attempts, user_data>>
    /\ UNCHANGED outsideRun

\* the final summary; the bot adds the counters to the user's statistics
Summary ==
    /\ pc = "summary"
    /\ pc' = "done"
    /\ user_data' =
          IF mode = "bot"
          THEN [total_downloads |-> user_data.total_downloads + successful,
                failed_downloads |-> user_data.failed_downloads + failed]
          ELSE user_data
    /\ UNCHANGED <<mode, kind, tracks, files, idx, successful, failed, attempts, results>>
    /\ UNCHANGED callVars
    /\ UNCHANGED outsideRun

Next ==
    \/ FetchTracks
    \/ NextTrack
    \/ EndLoop
    \/ SearchAndPrecheck
    \/ FetchArtwork
    \/ DownloadAudio
    \/ InjectMetadata
    \/ CleanupAndReturn
    \/ CountCli
    \/ DeliverBot
    \/ Summary

Spec == Init /\ [][Next]_vars

----------------------------------------------------------------------------
(* Scorer specification: the inputs are drawn in Init, Search applies the   *)
(* function.                                                                *)

TargetDurations == {180000, 170000}

RunIdle ==
    /\ mode = "cli"
    /\ kind = "album"
    /\ pc = "idle"
    /\ tracks = <<>>
    /\ files = {}
    /\ idx = 0
    /\ successful = 0
    /\ failed = 0
    /\ attempts = <<>>
    /\ results = <<>>
    /\ user_data = [total_downloads |-> 0, failed_downloads |-> 0]
    /\ NoCall

ScorerInit ==
    /\ spc = "input"
    /\ info \in InfoOf(SeqsUpTo(Entry, MaxEntries))
    /\ duration_ms \in TargetDurations
    /\ best_match = None
    /\ RunIdle
    /\ PlaylistIdle
    /\ SessionIdle
    /\ ChatIdle
    /\ SanitizeIdle
    /\ UrlIdle

Search ==
    /\ spc = "input"
    /\ best_match' = search_youtube_music(info, duration_ms)
    /\ spc' = "searched"
    /\ UNCHANGED <<info, duration_ms>>
    /\ UNCHANGED outsideScorer

ScorerNext == Search

SpecScorer == ScorerInit /\ [][ScorerNext]_vars

----------------------------------------------------------------------------
(* Properties of the batch run (specification Spec) *)

InCall == pc \in {"search", "art", "audio", "tag", "cleanup", "returned"}
PastSearch == pc \in {"art", "audio", "tag", "cleanup", "returned"}
Finished == pc \in {"summary", "done"}
UpTo(n) == [i \in 1..n |-> i]
Succeeded(rs) == {i \in 1..Len(rs) : rs[i].success}

\* the tracks attempted so far are 1..idx in order, each once; at the
\* summary that is the whole collection; before it the run is never stuck
AttemptedInOrder ==
    /\ attempts = UpTo(idx)
    /\ idx <= Len(tracks)
    /\ Finished => attempts = UpTo(Len(tracks))
    /\ pc \notin {"done", "aborted"} => ENABLED Next

\* steps left at most: a bound that every step of the run lowers
StepsOfPc ==
    [p \in {"done", "aborted", "summary", "loop", "returned", "cleanup", "tag",
            "audio", "art", "search"} |->
        CASE p \in {"done", "aborted"} -> 0
          [] p = "summary" -> 1
          [] p = "loop" -> 2
          [] p = "returned" -> 3
          [] p = "cleanup" -> 4
          [] p = "tag" -> 5
          [] p = "audio" -> 6
          [] p = "art" -> 7
          [] p = "search" -> 8]
StepsLeft ==
    IF pc = "fetch" THEN 10 * (MaxTracks + 1)
    ELSE 10 * (Len(tracks) - idx) + StepsOfPc[pc]

\* C1: in every batch run (CLI and bot, album and playlist) the tracks handed
\* to download_single_track are tracks 1, 2, ... in catalog order, each once,
\* whatever the tracks before returned (no failure ends the loop, no track is
\* taken twice); at the summary every track of the collection has been
\* attempted exactly once; and the run reaches its summary: it is never
\* stuck before it and every step lowers the bound on the steps left.
C1_EveryTrackAttemptedOnceInOrder ==
    /\ []AttemptedInOrder
    /\ [][StepsLeft' < StepsLeft]_vars

\* C1 witness: a finished run of three tracks whose first track failed and
\* whose second track failed differently, all three attempted in order.
C1_Witness ==
    /\ pc = "done"
    /\ Len(tracks) = 3
    /\ attempts = <<1, 2, 3>>
    /\ results[1].status = "DownloadFailed"
    /\ results[2].status = "NotFound"

\* C2: successful + failed always equals the number of tracks processed so
\* far, successful is the number of processed tracks that ended in success
\* and failed the number of the others; at the summary of a collection of n
\* tracks successful + failed = n.
C2_CountersPartitionProcessedTracks ==
    /\ Len(results) = IF InCall THEN idx - 1 ELSE idx
    /\ successful + failed = Len(results)
    /\ successful = Cardinality(Succeeded(results))
    /\ failed = Len(results) - Cardinality(Succeeded(results))
    /\ Finished => successful + failed = Len(tracks)

\* C2 witness: three tracks, track 2 not found, tracks 1 and 3 downloaded:
\* attempted 3, succeeded 2, failed 1.
C2_Witness ==
    /\ pc = "done"
    /\ Len(tracks) = 3
    /\ results[1].status = "Success"
    /\ results[2].status = "NotFound"
    /\ results[3].status = "Success"
    /\ Len(attempts) = 3
    /\ successful = 2
    /\ failed = 1

\* C3 (as claimed): whenever download_single_track returns from a call that
\* started with the output file present, it returns True and has not
\* invoked download_audio.
C3_ExistingFileAlwaysSuccess ==
    (pc = "returned" /\ existedAtCall) => (ret = TRUE /\ audioCalls = 0)

\* C3 (amended): a call that started with the output file present never
\* invokes download_audio and leaves the files as they were; it returns True
\* when the search step yielded a candidate, and False (NotFound) when it
\* did not, the search coming before the existence test.
C3_ExistingFileSkipsAcquisition ==
    (PastSearch /\ existedAtCall) =>
        /\ pc = "returned"
        /\ audioCalls = 0
        /\ artFetch = "none"
        /\ files = filesAtCall
        /\ ret = ~(video_info = None)
        /\ outcome = IF video_info = None THEN "NotFound" ELSE "Skipped"

\* C3 witness: a CLI run in which the same named track occurs twice, the
\* first was downloaded and the second call returned True by the skip.
C3_Witness ==
    /\ pc = "returned"
    /\ mode = "cli"
    /\ idx = 2
    /\ results[1].status = "Success"
    /\ existedAtCall
    /\ ret = TRUE
    /\ outcome = "Skipped"
    /\ audioCalls = 0

\* C4: download_single_track returns True only if the audio file exists at
\* the track's output path at that moment; when download_audio reported
\* success and the file is missing the call returns False (DownloadFailed).
C4_SuccessOnlyWithFile ==
    pc = "returned" =>
        /\ ret => final_mp3_path(tracks[idx]) \in files
        /\ (audioFlag = "ok" /\ final_mp3_path(tracks[idx]) \notin files)
              => (~ret /\ outcome = "DownloadFailed")

\* C4 witness: download_audio reported success, the file is not there, the
\* call returned DownloadFailed.
C4_Witness ==
    /\ pc = "returned"
    /\ audioFlag = "ok"
    /\ final_mp3_path(tracks[idx]) \notin files
    /\ ~ret
    /\ outcome = "DownloadFailed"

\* C7 (as claimed): when inject_metadata failed on the freshly acquired
\* file, the call ends in a failure outcome (TagFailed), not in Success,
\* and the audio file is still on disk.
C7_TagFailureIsFailure ==
    (pc = "returned" /\ injected = "failed") =>
        /\ ~ret
        /\ outcome # "Success"
        /\ final_mp3_path(tracks[idx]) \in files

\* C8 (as claimed): when download_single_track has returned, on any path,
\* the track's cover file does not exist.
C8_NoCoverFileAfterReturn ==
    pc = "returned" => album_art_path(tracks[idx]) \notin files

\* the result of the call when the artwork fetch fails: decided by the
\* search, the existence test and the acquisition alone
ResultWithoutArtwork ==
    /\ video_info # None
    /\ \/ existedAtCall
       \/ audioFlag = "ok" /\ final_mp3_path(tracks[idx]) \in files

\* C9 (as claimed): the value download_single_track returns is the same
\* whether download_album_art succeeded or failed, that is, it always equals
\* the value the call returns when the fetch fails.
C9_ArtworkNeverChangesResult ==
    pc = "returned" => ret = ResultWithoutArtwork

\* C10: when the search yields no candidate the call returns False as
\* NotFound right away: download_album_art and download_audio are not
\* invoked and the files are exactly those present when the call started.
C10_NotFoundIsTerminalAndInert ==
    (PastSearch /\ video_info = None) =>
        /\ pc = "returned"
        /\ ~ret
        /\ outcome = "NotFound"
        /\ artFetch = "none"
        /\ audioCalls = 0
        /\ injected = "none"
        /\ files = filesAtCall

\* C10 witness: a track with a cover URL, in a directory that already holds
\* a file, ended NotFound with nothing fetched and nothing changed.
C10_Witness ==
    /\ pc = "returned"
    /\ outcome = "NotFound"
    /\ tracks[idx].album_art_url
    /\ files # {}
    /\ files = filesAtCall
    /\ artFetch = "none"
    /\ audioCalls = 0

\* C11 (as claimed): in a batch run the search falls back to the first
\* candidate when none is within tolerance, so a track whose search returned
\* at least one candidate with a duration never ends in NotFound.
C11_BatchSearchFallsBackToFirstCandidate ==
    (pc = "returned" /\ candidates >= 1) =>
        (video_info # None /\ outcome # "NotFound")

----------------------------------------------------------------------------
(* Properties of the scorer (specification SpecScorer) *)

HasDuration(entry) == entry.kind = "duration"
Difference(entry, target) == Abs(entry.duration * MsPerSecond - target)

\* the candidates a duration rule can accept
WithinTolerance(entries, target) ==
    {i \in 1..Len(entries) :
        HasDuration(entries[i]) /\ Difference(entries[i], target) < Tolerance}

\* the stated rule: the smallest difference within tolerance, the first
\* such candidate on ties, None when there is none
ClosestWithinTolerance(entries, target) ==
    LET W == WithinTolerance(entries, target) IN
    IF W = {} THEN None
    ELSE CHOOSE i \in W :
            \A j \in W :
               \/ Difference(entries[i], target) < Difference(entries[j], target)
               \/ /\ Difference(entries[i], target) = Difference(entries[j], target)
                  /\ i <= j

\* C5 (as claimed): for every target and every candidate list the scorer
\* returns the first candidate of smallest difference within the tolerance,
\* and None when no candidate is within tolerance.
C5_ScorerReturnsClosestWithinTolerance ==
    (spc = "searched" /\ info.status = "ok") =>
        best_match = ClosestWithinTolerance(info.entries, duration_ms)

\* positions of the candidates that have a duration, in order
RECURSIVE KnownPositions(_, _)
KnownPositions(entries, i) ==
    IF i > Len(entries) THEN <<>>
    ELSE IF HasDuration(entries[i])
         THEN <<i>> \o KnownPositions(entries, i + 1)
         ELSE KnownPositions(entries, i + 1)

\* search_youtube_music on the list without its duration-less candidates,
\* as a position of the full list
ResultOnKnownOnly(inf, target) ==
    LET kept == KnownPositions(inf.entries, 1)
        r == search_youtube_music(
                 [status |-> inf.status,
                  entries |-> [k \in 1..Len(kept) |-> inf.entries[kept[k]]]],
                 target)
    IN  IF r = None THEN None ELSE kept[r]

\* C6 (as claimed): the scorer returns the same candidate as on the list
\* with the duration-less candidates (null entry, no duration field, null
\* duration value) removed.
C6_DurationlessCandidatesHaveNoEffect ==
    (spc = "searched" /\ info.status = "ok") =>
        best_match = ResultOnKnownOnly(info, duration_ms)

----------------------------------------------------------------------------
(* get_playlist_tracks: the playlist is served as a chain of pages; an item *)
(* is a track id, or 0 when its track is null (removed from the catalog)    *)

MaxPages == 2       \* longest chain of pages
MaxPageLen == 2     \* most items on a page

NullTrack == 0
TrackIds == {1, 2}
Item == {NullTrack} \cup TrackIds
Page == SeqsUpTo(Item, MaxPageLen)
PageChain == SeqsUpTo(Page, MaxPages) \ {<<>>}

KeepItemAlways(item) == TRUE

\* if item['track'] is None: continue
KeepItem(item) == item # NullTrack

\* for item in results['items']: ... tracks.append(metadata)
RECURSIVE AppendItems(_, _, _)
AppendItems(acc, items, i) ==
    IF i > Len(items) THEN acc
    ELSE AppendItems(IF KeepItem(items[i]) THEN Append(acc, items[i]) ELSE acc,
                     items, i + 1)

\* if results['next']
HasNext(chain, n) == n < Len(chain)

PartialOnError(sofar) == [isNone |-> FALSE, tracks |-> sofar]

\* except Exception: ... return None
OnError(sofar) == NoneTracks

PlaylistInit ==
    /\ plpc = "start"
    /\ pages \in PageChain
    /\ cursor = 0
    /\ pltracks = <<>>
    /\ plret = NoneTracks
    /\ RunIdle
    /\ ScorerIdle
    /\ SessionIdle
    /\ ChatIdle
    /\ SanitizeIdle
    /\ UrlIdle

\* playlist = self.sp.playlist(playlist_id); results = playlist['tracks']
FetchFirstPage ==
    /\ plpc = "start"
    /\ \E fetched \in BOOLEAN :
          IF fetched
          THEN /\ cursor' = 1
               /\ plpc' = "page"
               /\ UNCHANGED plret
          ELSE /\ plret' = OnError(pltracks)
               /\ plpc' = "done"
               /\ UNCHANGED cursor
    /\ UNCHANGED <<pages, pltracks>>
    /\ UNCHANGED outsidePlaylist

\* one pass of  while results:  the items of the page, then the cursor
ReadPage ==
    /\ plpc = "page"
    /\ LET sofar == AppendItems(pltracks, pages[cursor], 1) IN
          /\ pltracks' = sofar
          /\ IF HasNext(pages, cursor)
             THEN \E fetched \in BOOLEAN :
                     IF fetched
                     THEN /\ cursor' = cursor + 1
                          /\ UNCHANGED <<plpc, plret>>
                     ELSE /\ plret' = OnError(sofar)
                          /\ plpc' = "done"
                          /\ UNCHANGED cursor
             ELSE /\ plret' = [isNone |-> FALSE, tracks |-> sofar]
                  /\ plpc' = "done"
                  /\ UNCHANGED cursor
    /\ UNCHANGED pages
    /\ UNCHANGED outsidePlaylist

PlaylistNext == FetchFirstPage \/ ReadPage

SpecPlaylist == PlaylistInit /\ [][PlaylistNext]_vars

----------------------------------------------------------------------------
(* Properties of get_playlist_tracks (specification SpecPlaylist) *)

RECURSIVE Concat(_, _)
Concat(chain, n) ==
    IF n = 0 THEN <<>> ELSE Concat(chain, n - 1) \o chain[n]

NonNull(items) == SelectSeq(items, LAMBDA x : x # NullTrack)

\* C12: when no page fetch fails, get_playlist_tracks has followed the chain
\* to its last page and returns the items of all pages that have a track,
\* in page order and in-page order, each once; null-track items are skipped
\* and do not fail the projection.
C12_AllPagesInOrderWithoutNullTracks ==
    (plpc = "done" /\ ~plret.isNone) =>
        /\ cursor = Len(pages)
        /\ plret.tracks = NonNull(Concat(pages, Len(pages)))

\* C12 witness: two full pages, a null-track item on each, returned without
\* the null items.
C12_Witness ==
    /\ plpc = "done"
    /\ ~plret.isNone
    /\ pages = << <<1, NullTrack>>, <<NullTrack, 2>> >>
    /\ plret.tracks = <<1, 2>>

\* C13: a partial playlist is never returned: when the fetch of a page (the
\* first or a continuation page) failed, the return value is None, and a
\* returned list is never shorter than the whole playlist.
C13_NoPartialPlaylist ==
    plpc = "done" =>
        /\ cursor < Len(pages) => plret = NoneTracks
        /\ plret.isNone => plret.tracks = <<>>
        /\ ~plret.isNone => Len(plret.tracks) = Len(NonNull(Concat(pages, Len(pages))))

\* C13 witness: the first page was read, the fetch of the second failed, and
\* None was returned although tracks had been collected.
C13_Witness ==
    /\ plpc = "done"
    /\ cursor = 1
    /\ Len(pages) = 2
    /\ pltracks # <<>>
    /\ plret = NoneTracks

----------------------------------------------------------------------------
(* A session of requests: download_from_url (CLI) and download_and_send     *)
(* (bot) over tracks, albums and playlists.  download_single_track is one   *)
(* step here, taken by the way it ended; the batch run above has its steps. *)

MaxRequests == 2    \* requests in a session
MaxBatch == 2       \* most tracks of an album or playlist

Flows == {"track", "album", "playlist"}

\* the ways download_single_track can end for a track, given the files
CallOutcomes(name, fs) ==
    IF name \in fs THEN {"NotFound", "Skipped"}
    ELSE {"NotFound", "DownloadFailed", "Success", "TagFailed", "Error"}

\* its return value
Returns(o) == o \in {"Success", "Skipped", "TagFailed"}

\* the mp3 files after the call
DiskAfter(o, name, fs) ==
    IF o \in {"Success", "TagFailed", "Error"} THEN fs \cup {name} ELSE fs

\* what the catalog can answer to the request (the tracks of a collection
\* are taken to be distinct)
Fetchable(ctype) ==
    IF ctype = "track" THEN {<<n>> : n \in Names}
    ELSE {list \in SeqsUpTo(Names, MaxBatch) :
            \A i, j \in 1..Len(list) : list[i] = list[j] => i = j}

Fetched(list) == [escaped |-> FALSE, isNone |-> FALSE, tracks |-> list]

LookupRaises(raised, list) ==
    IF raised THEN [escaped |-> TRUE, isNone |-> FALSE, tracks |-> <<>>]
    ELSE Fetched(list)

\* get_track_metadata / get_album_tracks / get_playlist_tracks:
\* try: ... return ...  except Exception: return None
LookupCaught(raised, list) ==
    IF raised THEN [escaped |-> FALSE, isNone |-> TRUE, tracks |-> <<>>]
    ELSE Fetched(list)

\* if not metadata / if not tracks
NoTracks(got) == got.isNone \/ got.tracks = <<>>

\* CLI: print(...); return False.  Bot: send_message("Failed to get ...")
AbortReport(c) == IF c = "cli" THEN "False" ELSE "message"

Line(name, category) == [track |-> name, category |-> category]

\* progress_bar.write(...) of download_single_track on its failing paths
ProgressLine(name, o) ==
    IF o \in {"NotFound", "DownloadFailed", "Error"} THEN <<Line(name, o)>> ELSE <<>>

\* print("Download failed") and the bot's "Failed to download track (Audio
\* not found or download error)": neither the title nor the cause
UnspecificLine == Line("", "unspecified")

\* the bot's "Error sending file: ..."
SendErrorLine == Line("", "UploadFailed")

\* history: the call ended in a terminal failure of the track
FailureOf(name, o) ==
    IF o \in {"NotFound", "DownloadFailed", "TagFailed", "Error"}
    THEN <<Line(name, o)>> ELSE <<>>

Bump(rec, field) == [rec EXCEPT ![field] = @ + 1]

\* a progress signal: the index and total it shows, the title it names and
\* the number of items that had been processed when it was emitted
Signal(index, total, name, processed) ==
    [index |-> index, total |-> total, title |-> name, processed |-> processed]

\* progress_bar.set_description(title), first statement of
\* download_single_track: the bar still counts the items before this one
DescriptionSignal(i, list) == Signal(i - 1, Len(list), list[i], i - 1)

\* pbar.update(1) after the call
UpdateSignal(i, list) == Signal(i, Len(list), list[i], i)

\* the bot: status_msg.edit_text("... Progress: {idx}/{len(tracks)} Current:
\* {title}"), first statement of the loop body, before the download
ProgressMessage(i, list) == Signal(i, Len(list), list[i], i - 1)

SessionInit ==
    /\ client \in {"cli", "bot"}
    /\ flow = "none"
    /\ sepc = "idle"
    /\ lookup = "none"
    /\ batch = <<>>
    /\ pos = 0
    /\ counts = NoCounts
    /\ stats = NoStats
    /\ disk \in SUBSET Names
    /\ requests = 0
    /\ report = "none"
    /\ attempted = 0
    /\ ended = NoneEnded
    /\ dispositions = {}
    /\ lines = <<>>
    /\ failures = <<>>
    /\ signals = <<>>
    /\ RunIdle
    /\ ScorerIdle
    /\ PlaylistIdle
    /\ ChatIdle
    /\ SanitizeIdle
    /\ UrlIdle

\* download_from_url / download_and_send up to the catalog lookup and the
\* test of its result
Request ==
    /\ sepc = "idle"
    /\ requests < MaxRequests
    /\ \E ctype \in Flows, raised \in BOOLEAN :
         \E list \in Fetchable(ctype) :
           LET got == LookupCaught(raised, list) IN
           /\ flow' = ctype
           /\ requests' = requests + 1
           /\ attempted' = 0
           /\ counts' = NoCounts
           /\ lines' = <<>>
           /\ failures' = <<>>
           /\ signals' = <<>>
           /\ lookup' = IF raised THEN "failed"
                        ELSE IF list = <<>> THEN "empty" ELSE "ok"
           /\ IF got.escaped
              THEN \* the bot's download_and_send catches it and sends a
                   \* message; download_from_url has no handler
                   /\ sepc' = IF client = "bot" THEN "idle" ELSE "escaped"
                   /\ report' = IF client = "bot" THEN "message" ELSE "none"
                   /\ batch' = <<>>
                   /\ pos' = 0
              ELSE IF NoTracks(got)
              THEN /\ sepc' = "idle"
                   /\ report' = AbortReport(client)
                   /\ batch' = <<>>
                   /\ pos' = 0
              ELSE /\ sepc' = "loop"
                   /\ report' = "none"
                   /\ batch' = got.tracks
                   /\ pos' = 1
    /\ UNCHANGED <<client, stats, disk, ended, dispositions>>
    /\ UNCHANGED outsideSession

\* SpotifyDownloader.download_track after the lookup
CliTrack ==
    /\ client = "cli"
    /\ sepc = "loop"
    /\ flow = "track"
    /\ LET name == batch[pos] IN
       \E o \in CallOutcomes(name, disk) :
          /\ disk' = DiskAfter(o, name, disk)
          /\ report' = IF Returns(o) THEN "True" ELSE "False"
          /\ lines' = IF Returns(o) THEN lines ELSE Append(lines, UnspecificLine)
          /\ failures' = failures \o FailureOf(name, o)
          /\ ended' = Bump(ended, IF Returns(o) THEN "delivered" ELSE "failedDownload")
    /\ attempted' = attempted + 1
    /\ pos' = pos + 1
    /\ sepc' = "idle"
    /\ UNCHANGED <<client, flow, lookup, batch, counts, stats, requests, dispositions,
                   signals>>
    /\ UNCHANGED outsideSession

\* one pass of the loop of SpotifyDownloader.download_album / download_playlist
CliBatchItem ==
    /\ client = "cli"
    /\ sepc = "loop"
    /\ flow # "track"
    /\ pos <= Len(batch)
    /\ LET name == batch[pos] IN
       \E o \in CallOutcomes(name, disk) :
          /\ disk' = DiskAfter(o, name, disk)
          /\ lines' = lines \o ProgressLine(name, o)
          /\ failures' = failures \o FailureOf(name, o)
          /\ counts' = [successful |-> CountSuccessful(counts.successful, Returns(o)),
                        failed |-> CountFailed(counts.failed, Returns(o))]
          /\ ended' = Bump(ended, IF Returns(o) THEN "delivered" ELSE "failedDownload")
    /\ signals' = signals \o <<DescriptionSignal(pos, batch), UpdateSignal(pos, batch)>>
    /\ attempted' = attempted + 1
    /\ pos' = pos + 1
    /\ UNCHANGED <<client, flow, sepc, lookup, batch, stats, requests, report,
                   dispositions>>
    /\ UNCHANGED outsideSession

\* the summary of the CLI batch; return True
CliFinish ==
    /\ client = "cli"
    /\ sepc = "loop"
    /\ flow # "track"
    /\ pos > Len(batch)
    /\ report' = "True"
    /\ sepc' = "idle"
    /\ UNCHANGED <<client, flow, lookup, batch, pos, counts, stats, disk, requests,
                   attempted, ended, dispositions, lines, failures, signals>>
    /\ UNCHANGED outsideSession

\* TelegramBot.download_single_track after the lookup
BotTrack ==
    /\ client = "bot"
    /\ sepc = "loop"
    /\ flow = "track"
    /\ LET name == batch[pos] IN
       \E o \in CallOutcomes(name, disk), sent \in BOOLEAN, unlinked \in BOOLEAN :
          LET after == DiskAfter(o, name, disk) IN
          IF ~Returns(o)
          THEN \* edit_text("Failed to download track ..."); failed_downloads + 1
               /\ disk' = after
               /\ lines' = Append(lines, UnspecificLine)
               /\ failures' = failures \o FailureOf(name, o)
               /\ stats' = Bump(stats, "failed_downloads")
               /\ ended' = Bump(ended, "failedDownload")
               /\ UNCHANGED dispositions
          ELSE IF name \notin after
          THEN \* edit_text("Error: Downloaded file not found on disk.")
               /\ disk' = after
               /\ lines' = Append(lines, Line("", "FileMissing"))
               /\ failures' = Append(failures, Line(name, "FileMissing"))
               /\ ended' = Bump(ended, "failedOther")
               /\ UNCHANGED <<stats, dispositions>>
          ELSE IF sent
          THEN \* send_audio; total_downloads + 1; unlink, a failure of which
               \* is logged only
               /\ disk' = IF unlinked THEN after \ {name} ELSE after
               /\ lines' = lines
               /\ failures' = failures \o FailureOf(name, o)
               /\ stats' = Bump(stats, "total_downloads")
               /\ ended' = Bump(ended, "delivered")
               /\ UNCHANGED dispositions
          ELSE \* except: edit_text("Error sending file: ..."); unlink, a
               \* failure of which is passed over
               /\ disk' = IF unlinked THEN after \ {name} ELSE after
               /\ lines' = Append(lines, SendErrorLine)
               /\ failures' = Append(failures \o FailureOf(name, o),
                                     Line(name, "UploadFailed"))
               /\ dispositions' = dispositions \cup
                                    {IF unlinked THEN "deleted" ELSE "retained"}
               /\ ended' = Bump(ended, "failedUpload")
               /\ UNCHANGED stats
    /\ attempted' = attempted + 1
    /\ pos' = pos + 1
    /\ report' = "message"
    /\ sepc' = "idle"
    /\ UNCHANGED <<client, flow, lookup, batch, counts, requests, signals>>
    /\ UNCHANGED outsideSession

\* one pass of the loop of TelegramBot.download_album / download_playlist
BotBatchItem ==
    /\ client = "bot"
    /\ sepc = "loop"
    /\ flow # "track"
    /\ pos <= Len(batch)
    /\ LET name == batch[pos] IN
       \E o \in CallOutcomes(name, disk), sent \in BOOLEAN, unlinked \in BOOLEAN :
          LET after == DiskAfter(o, name, disk) IN
          IF ~Returns(o)
          THEN /\ disk' = after
               /\ failures' = failures \o FailureOf(name, o)
               /\ counts' = Bump(counts, "failed")
               /\ ended' = Bump(ended, "failedDownload")
               /\ UNCHANGED dispositions
          ELSE IF name \notin after
          THEN /\ disk' = after
               /\ failures' = Append(failures, Line(name, "FileMissing"))
               /\ counts' = Bump(counts, "failed")
               /\ ended' = Bump(ended, "failedOther")
               /\ UNCHANGED dispositions
          ELSE IF sent /\ unlinked
          THEN \* send_audio; mp3_path.unlink(); successful += 1
               /\ disk' = after \ {name}
               /\ failures' = failures \o FailureOf(name, o)
               /\ counts' = Bump(counts, "successful")
               /\ ended' = Bump(ended, "delivered")
               /\ UNCHANGED dispositions
          ELSE IF sent
          THEN \* mp3_path.unlink() raised after the upload: failed += 1
               /\ disk' = after
               /\ failures' = failures \o FailureOf(name, o)
               /\ counts' = Bump(counts, "failed")
               /\ ended' = Bump(ended, "failedOther")
               /\ UNCHANGED dispositions
          ELSE \* send_audio raised: failed += 1, the file is left where it is
               /\ disk' = after
               /\ failures' = Append(failures \o FailureOf(name, o),
                                     Line(name, "UploadFailed"))
               /\ counts' = Bump(counts, "failed")
               /\ dispositions' = dispositions \cup {"retained"}
               /\ ended' = Bump(ended, "failedUpload")
    /\ \E shown \in BOOLEAN :
          signals' = IF shown THEN Append(signals, ProgressMessage(pos, batch))
                     ELSE signals
    /\ attempted' = attempted + 1
    /\ pos' = pos + 1
    /\ UNCHANGED <<client, flow, sepc, lookup, batch, stats, requests, report, lines>>
    /\ UNCHANGED outsideSession

\* the bot's summary message and the update of user_data
BotFinish ==
    /\ client = "bot"
    /\ sepc = "loop"
    /\ flow # "track"
    /\ pos > Len(batch)
    /\ stats' = [total_downloads |-> stats.total_downloads + counts.successful,
                 failed_downloads |-> stats.failed_downloads + counts.failed]
    /\ report' = "summary"
    /\ sepc' = "idle"
    /\ UNCHANGED <<client, flow, lookup, batch, pos, counts, disk, requests,
                   attempted, ended, dispositions, lines, failures, signals>>
    /\ UNCHANGED outsideSession

SessionNext ==
    \/ Request
    \/ CliTrack
    \/ CliBatchItem
    \/ CliFinish
    \/ BotTrack
    \/ BotBatchItem
    \/ BotFinish

SpecSession == SessionInit /\ [][SessionNext]_vars

----------------------------------------------------------------------------
(* Properties of the session (specification SpecSession) *)

Count(seq, x) == Cardinality({i \in 1..Len(seq) : seq[i] = x})

\* C14 (as claimed): in every bot flow each upload failure is recorded as one
\* failed download and never as a success: between requests the user's
\* failed_downloads is the number of tracks that ended in a failure, upload
\* failures among them, and total_downloads the number of delivered tracks.
C14_UploadFailureCountedAsFailed ==
    (client = "bot" /\ sepc = "idle") =>
        /\ stats.failed_downloads =
              ended.failedDownload + ended.failedUpload + ended.failedOther
        /\ stats.total_downloads = ended.delivered

\* C15 (as claimed): after a failed upload the file is retained or deleted by
\* one fixed rule, the same in the single-track, album and playlist flows.
C15_OneDispositionAfterUploadFailure ==
    Cardinality(dispositions) <= 1

C20_OneStatusLinePerFailedTrack ==
    sepc = "idle" =>
        \A i \in 1..Len(failures) :
            Count(lines, failures[i]) = Count(failures, failures[i])

----------------------------------------------------------------------------
(* The bot's confirm/cancel exchange with one user: handle_message and      *)
(* button_callback.  The user's updates queue up in inbox and the           *)
(* application handles them one at a time, each handler to its end.         *)

MaxUpdates == 4             \* updates the user sends
MaxAllowedTracks == 50      \* if count > 50: "Maximum allowed is 50"

Bulk == {"album", "playlist"}

Url(type, id) == [type |-> type, id |-> id]

\* the Spotify URLs the user sends: a track, two albums, a playlist
Urls == {Url("track", 1), Url("album", 2), Url("album", 3), Url("playlist", 4)}

\* what a catalog lookup of a collection answers: None (0), or its tracks,
\* here their number
Sizes == {1, MaxAllowedTracks, MaxAllowedTracks + 1}
Answers == {None} \cup Sizes

\* callback_data = f"confirm_{content_type}_{content_id}"
Token(u) == [type |-> u.type, id |-> u.id]

Message(u) == [kind |-> "message", url |-> u, msg |-> 0, token |-> NoUrl]
Press(button, m, u) ==
    [kind |-> button, url |-> NoUrl, msg |-> m,
     token |-> IF button = "confirm" THEN Token(u) ELSE NoUrl]

NeedsConfirmationNever(content_type) == FALSE

\* if content_type in ['album', 'playlist']
NeedsConfirmation(content_type) == content_type \in Bulk

\* count = len(tracks) if tracks else 0
CountOf(answer) == IF answer = None THEN 0 ELSE answer

\* if count > 50: ... return
TooLarge(count) == count > MaxAllowedTracks

\* download_and_send(update, context, spotify_url, content_type): the flow
\* is chosen by content_type, the id comes from the URL, and the flow looks
\* the collection up again; an id of another type is not found
Run(trigger, m, token, u, content_type, answer) ==
    [trigger |-> trigger, msg |-> m, token |-> token, url |-> u,
     content_type |-> content_type,
     size |-> IF u.type # content_type THEN 0
              ELSE IF content_type = "track" THEN (IF answer = None THEN 0 ELSE 1)
              ELSE CountOf(answer)]

ChatInit ==
    /\ inbox = <<>>
    /\ prompts = <<>>
    /\ pending_url = NoUrl
    /\ runs = <<>>
    /\ updates = 0
    /\ RunIdle
    /\ ScorerIdle
    /\ PlaylistIdle
    /\ SessionIdle
    /\ SanitizeIdle
    /\ UrlIdle

\* the user sends a Spotify URL
SendUrl ==
    /\ updates < MaxUpdates
    /\ \E u \in Urls : inbox' = Append(inbox, Message(u))
    /\ updates' = updates + 1
    /\ UNCHANGED <<prompts, pending_url, runs>>
    /\ UNCHANGED outsideChat

\* the user presses a button of a prompt whose keyboard is still shown
PressButton ==
    /\ updates < MaxUpdates
    /\ \E m \in 1..Len(prompts), button \in {"confirm", "cancel"} :
          /\ prompts[m].open
          /\ inbox' = Append(inbox, Press(button, m, prompts[m].url))
    /\ updates' = updates + 1
    /\ UNCHANGED <<prompts, pending_url, runs>>
    /\ UNCHANGED outsideChat

\* TelegramBot.handle_message
HandleMessage ==
    /\ inbox # <<>>
    /\ Head(inbox).kind = "message"
    /\ inbox' = Tail(inbox)
    /\ LET u == Head(inbox).url IN
       IF NeedsConfirmation(u.type)
       THEN \E answer \in Answers :
               IF TooLarge(CountOf(answer))
               THEN UNCHANGED <<prompts, pending_url, runs>>
               ELSE /\ prompts' = Append(prompts, [url |-> u, open |-> TRUE])
                    /\ pending_url' = u
                    /\ UNCHANGED runs
       ELSE \E answer \in {None, 1} :
               /\ runs' = Append(runs, Run("message", 0, NoUrl, u, "track", answer))
               /\ UNCHANGED <<prompts, pending_url>>
    /\ UNCHANGED updates
    /\ UNCHANGED outsideChat

\* TelegramBot.button_callback
HandleCallback ==
    /\ inbox # <<>>
    /\ Head(inbox).kind \in {"confirm", "cancel"}
    /\ inbox' = Tail(inbox)
    /\ LET press == Head(inbox)
           content_type == press.token.type
           spotify_url == pending_url
           closed == [prompts EXCEPT ![press.msg].open = FALSE]
       IN  IF press.kind = "cancel"
           THEN \* edit_message_text("Download cancelled.")
                /\ prompts' = closed
                /\ UNCHANGED runs
           ELSE IF spotify_url = NoUrl
           THEN \* edit_message_text("Error: URL not found. Please try again.")
                /\ prompts' = closed
                /\ UNCHANGED runs
           ELSE \* edit_message_text("Starting download of ..."); download_and_send
                /\ prompts' = closed
                /\ \E answer \in Answers :
                      runs' = Append(runs, Run("confirm", press.msg, press.token,
                                               spotify_url, content_type, answer))
    /\ UNCHANGED <<pending_url, updates>>
    /\ UNCHANGED outsideChat

ChatNext ==
    \/ SendUrl
    \/ PressButton
    \/ HandleMessage
    \/ HandleCallback

SpecChat == ChatInit /\ [][ChatNext]_vars

----------------------------------------------------------------------------
(* Properties of the confirm/cancel exchange (specification SpecChat) *)

ConfirmRuns == {i \in 1..Len(runs) : runs[i].trigger = "confirm"}

\* a download over a collection: an album or playlist URL, or the album or
\* playlist flow
OverCollection(r) == r.url.type \in Bulk \/ r.content_type \in Bulk
CollectionRuns == SelectSeq(runs, OverCollection)

\* C16 (as claimed): a confirm press starts the bulk download of the
\* collection its token identifies (kind and identifier), whatever the user
\* sent before or after that prompt, and each prompt starts at most one bulk
\* download.
C16_ConfirmRunsTheTokensCollection ==
    /\ \A i \in ConfirmRuns :
          /\ runs[i].content_type = runs[i].token.type
          /\ runs[i].url = Url(runs[i].token.type, runs[i].token.id)
    /\ \A i, j \in ConfirmRuns : runs[i].msg = runs[j].msg => i = j

\* C17 (as claimed): the collection a bulk operation of the bot processes
\* never has more than 50 tracks.
C17_BulkRunWithinCap ==
    \A i \in 1..Len(runs) :
        runs[i].content_type \in Bulk => runs[i].size <= MaxAllowedTracks

\* C18: no download over an album or playlist starts before a confirm press:
\* every such download was started by the handling of a confirm press of a
\* prompt, and a step that handles an album/playlist URL or a cancel press
\* (or any step other than the handling of a confirm press) starts none.
C18_BulkDownloadOnlyOnConfirm ==
    /\ [](\A i \in 1..Len(runs) :
             OverCollection(runs[i]) =>
                 /\ runs[i].trigger = "confirm"
                 /\ runs[i].msg \in 1..Len(prompts)
                 /\ ~prompts[runs[i].msg].open)
    /\ [][CollectionRuns' # CollectionRuns =>
             /\ inbox # <<>>
             /\ Head(inbox).kind = "confirm"
             /\ inbox' = Tail(inbox)]_vars

\* C18 witness: an album URL and a cancel press have been handled and nothing
\* was downloaded; the prompt is closed.
C18_Witness ==
    /\ inbox = <<>>
    /\ updates = 2
    /\ Len(prompts) = 1
    /\ ~prompts[1].open
    /\ runs = <<>>

----------------------------------------------------------------------------
(* sanitize_filename and the file names built from it.  A string is the     *)
(* sequence of its characters; the inputs are made of runs of one character *)
(* so that strings longer than the limit are among them.                    *)

MaxFilenameLength == 200    \* if len(filename) > 200: filename = filename[:200]
MaxRuns == 2                \* most runs an input title is made of

\* invalid_chars = r'[<>:"/\\|?*]'
InvalidChars == {"<", ">", ":", "\"", "/", "\\", "|", "?", "*"}
Chars == InvalidChars \cup {"a"}

Repeat(c, n) == [i \in 1..n |-> c]
\* one character of any kind, or a long run of a valid one
LongLengths == {MaxFilenameLength, MaxFilenameLength + 1}
Runs == {<<c>> : c \in Chars} \cup {Repeat("a", n) : n \in LongLengths}

RECURSIVE Flatten(_)
Flatten(parts) ==
    IF parts = <<>> THEN <<>> ELSE Head(parts) \o Flatten(Tail(parts))

Titles == {Flatten(parts) : parts \in SeqsUpTo(Runs, MaxRuns)}
Artists == {<<>>, <<"b">>, <<"?", "b">>, Repeat("b", MaxFilenameLength)}

\* re.sub(invalid_chars, '', filename) on the characters lo..hi: every
\* occurrence is replaced by the empty string, the rest is kept in order
RECURSIVE ReSub(_, _, _)
ReSub(filename, lo, hi) ==
    IF lo > hi THEN <<>>
    ELSE IF lo = hi
    THEN (IF filename[lo] \in InvalidChars THEN <<>> ELSE <<filename[lo]>>)
    ELSE LET mid == (lo + hi) \div 2 IN
         ReSub(filename, lo, mid) \o ReSub(filename, mid + 1, hi)

TruncateNever(filename) == filename

\* if len(filename) > 200: filename = filename[:200]
Truncate(filename) ==
    IF Len(filename) > MaxFilenameLength
    THEN SubSeq(filename, 1, MaxFilenameLength)
    ELSE filename

sanitize_filename(filename) == Truncate(ReSub(filename, 1, Len(filename)))

\* f"{metadata['title']} - {metadata['artist']}"
TitleDashArtist(t, a) == t \o <<" ", "-", " ">> \o a

\* download_single_track: safe_title = sanitize_filename(f"{title} - {artist}");
\* final_mp3_path = downloads_dir / f"{safe_title}.mp3"
Mp3Name(t, a) == sanitize_filename(TitleDashArtist(t, a)) \o <<".mp3">>

BotMp3NameOfTitle(t, a) == sanitize_filename(t) \o <<".mp3">>

\* the bot: safe_title = sanitize_filename(f"{title} - {artist}");
\* mp3_path = downloads_dir / f"{safe_title}.mp3"
BotMp3Name(t, a) == sanitize_filename(TitleDashArtist(t, a)) \o <<".mp3">>

SanitizeInit ==
    /\ sfpc = "input"
    /\ title \in Titles
    /\ artist \in Artists
    /\ sanitized = <<>>
    /\ orch_path = <<>>
    /\ bot_path = <<>>
    /\ RunIdle
    /\ ScorerIdle
    /\ PlaylistIdle
    /\ SessionIdle
    /\ ChatIdle
    /\ UrlIdle

\* the functions applied to the track's title and artist
ComputeNames ==
    /\ sfpc = "input"
    /\ sanitized' = sanitize_filename(title)
    /\ orch_path' = Mp3Name(title, artist)
    /\ bot_path' = BotMp3Name(title, artist)
    /\ sfpc' = "computed"
    /\ UNCHANGED <<title, artist>>
    /\ UNCHANGED outsideSanitize

SanitizeNext == ComputeNames

SpecSanitize == SanitizeInit /\ [][SanitizeNext]_vars

----------------------------------------------------------------------------
(* Properties of sanitize_filename and the file names (SpecSanitize) *)

Valid(c) == c \notin InvalidChars
Min(a, b) == IF a < b THEN a ELSE b
Clean(str) == \A i \in 1..Len(str) : Valid(str[i])

\* C21: sanitize_filename returns its input with every character of
\* < > : " / \ | ? * removed and then cut to its first 200 characters: the
\* output has none of these characters and at most 200 characters, equals
\* the input when the input has no such character and at most 200
\* characters, and is empty for the empty input.
C21_SanitizeRemovesAndTruncates ==
    sfpc = "computed" =>
        LET kept == SelectSeq(title, Valid) IN
        /\ sanitized = SubSeq(kept, 1, Min(Len(kept), MaxFilenameLength))
        /\ Clean(sanitized)
        /\ Len(sanitized) <= MaxFilenameLength
        /\ (Clean(title) /\ Len(title) <= MaxFilenameLength) => sanitized = title
        /\ title = <<>> => sanitized = <<>>

\* C21 witness: a title with an invalid character and more than 200 valid
\* ones has been sanitized to 200 characters.
C21_Witness ==
    /\ sfpc = "computed"
    /\ ~Clean(title)
    /\ Len(SelectSeq(title, Valid)) > MaxFilenameLength
    /\ Len(sanitized) = MaxFilenameLength

\* {sanitize(title)} - {sanitize(artist)}.mp3
LayoutOfParts(t, a) ==
    sanitize_filename(t) \o <<" ", "-", " ">> \o sanitize_filename(a) \o <<".mp3">>

\* C22 (as claimed): for titles and artists of any length the file name used
\* by the orchestrator and by the bot is {sanitize(title)} - {sanitize(artist)}.mp3.
C22_PathIsSanitizedTitleDashSanitizedArtist ==
    sfpc = "computed" =>
        /\ orch_path = LayoutOfParts(title, artist)
        /\ bot_path = LayoutOfParts(title, artist)

\* C22 (amended): the orchestrator and the bot use the same file name, the
\* first 200 characters of "{title} - {artist}" without the forbidden
\* characters, followed by ".mp3"; it is {sanitize(title)} - {sanitize(artist)}.mp3
\* whenever title and artist, without the forbidden characters, have together
\* at most 197 characters.
C22_PathIsSanitizedJoinedName ==
    sfpc = "computed" =>
        LET t == SelectSeq(title, Valid)
            a == SelectSeq(artist, Valid)
            joined == t \o <<" ", "-", " ">> \o a
        IN  /\ bot_path = orch_path
            /\ orch_path =
                 SubSeq(joined, 1, Min(Len(joined), MaxFilenameLength)) \o <<".mp3">>
            /\ Len(joined) <= MaxFilenameLength =>
                  orch_path = LayoutOfParts(title, artist)

\* C22 witness: a title of more than 200 valid characters and a non-empty
\* artist: the artist is cut off the file name.
C22_Witness ==
    /\ sfpc = "computed"
    /\ Len(SelectSeq(title, Valid)) > MaxFilenameLength
    /\ artist = <<"b">>
    /\ orch_path = SubSeq(SelectSeq(title, Valid), 1, MaxFilenameLength) \o <<".mp3">>
    /\ bot_path = orch_path

----------------------------------------------------------------------------
(* The CLI batch run from an empty downloads directory, with the user's     *)
(* interrupt: main runs download_from_url inside                            *)
(* try: ... except KeyboardInterrupt: print(...); break                     *)

Running == pc \in {"fetch", "loop", "search", "art", "audio", "tag", "cleanup",
                   "returned", "summary"}

\* KeyboardInterrupt is raised wherever the run is; no handler between
\* download_single_track (except Exception) and main catches it
Interrupt ==
    /\ Running
    /\ pc' = "interrupted"
    /\ UNCHANGED <<mode, kind, tracks, files, idx, successful, failed, attempts,
                   results, user_data>>
    /\ UNCHANGED callVars
    /\ UNCHANGED outsideRun

CliInit ==
    /\ Init
    /\ mode = "cli"
    /\ files = {}

CliNext ==
    \/ FetchTracks
    \/ NextTrack
    \/ EndLoop
    \/ SearchAndPrecheck
    \/ FetchArtwork
    \/ DownloadAudio
    \/ InjectMetadata
    \/ CleanupAndReturn
    \/ CountCli
    \/ Summary
    \/ Interrupt

SpecCli == CliInit /\ [][CliNext]_vars

----------------------------------------------------------------------------
(* Properties of the CLI run (specification SpecCli) *)

\* a download_single_track call had started and not yet returned
MidItem == idx > Len(results) /\ outcome = "none"

\* C23 (as claimed): a user interrupt during a batch run takes effect only
\* between batch items, never while a track is being processed.
C23_InterruptOnlyBetweenItems ==
    pc = "interrupted" => ~MidItem

\* C27 (as claimed): in a CLI batch run that starts with an empty downloads
\* directory every track counted as succeeded had download_audio invoked for
\* it, also when two tracks of the collection have the same file name.
C27_SucceededTracksWereAcquired ==
    \A i \in 1..Len(results) :
        results[i].success => results[i].status # "Skipped"

----------------------------------------------------------------------------
(* Further properties of the batch run (specification Spec) *)

\* C24 (as claimed): a failure to delete the cover file is not propagated:
\* when download_audio succeeded and the audio file is there, the call
\* returns Success whatever the deletion of the cover file did.
C24_CoverCleanupFailureNotPropagated ==
    (pc = "returned" /\ audioFlag = "ok"
        /\ final_mp3_path(tracks[idx]) \in files) =>
            (ret /\ outcome = "Success")

\* the file of a processed track was sent to the chat
Sent(r) == r.success \/ r.status = "UnlinkFailed"

\* C28 (as claimed): in the bot's album and playlist flows a track is counted
\* as succeeded if and only if its audio file was delivered to the chat, and
\* after the run no audio file of a track counted as succeeded remains in the
\* downloads directory.
C28_SucceededIffDelivered ==
    mode = "bot" =>
        /\ \A i \in 1..Len(results) : results[i].success <=> Sent(results[i])
        /\ pc = "done" =>
              \A i \in Succeeded(results) : final_mp3_path(tracks[i]) \notin files

----------------------------------------------------------------------------
(* Further properties of the session (specification SpecSession) *)

\* C25 (as claimed): in every batch run, CLI and bot, for each processed item
\* i of n a progress signal with index i, total n and the item's title has
\* been emitted after item i was processed and before item i+1 started.
C25_ProgressSignalAfterEachItem ==
    (flow \in {"album", "playlist"} /\ lookup = "ok") =>
        \A i \in 1..attempted :
            \E k \in 1..Len(signals) :
                signals[k] = Signal(i, Len(batch), batch[i], i)

----------------------------------------------------------------------------
(* extract_spotify_info and the dispatch of download_from_url.  A URL is    *)
(* the sequence of its characters, put together from the three keywords,    *)
(* runs of identifier characters and a separator.                           *)

IdLength == 22      \* r'track/([a-zA-Z0-9]{22})'
MaxPieces == 4      \* most pieces a URL is made of

track_pattern == <<"t", "r", "a", "c", "k", "/">>
album_pattern == <<"a", "l", "b", "u", "m", "/">>
playlist_pattern == <<"p", "l", "a", "y", "l", "i", "s", "t", "/">>

\* [a-zA-Z0-9], as far as the characters of these URLs go
AlphaNumeric == {"t", "r", "a", "c", "k", "l", "b", "u", "m", "p", "y", "i", "s",
                 "x", "z"}

Pieces ==
    {track_pattern, album_pattern, playlist_pattern, <<"?">>,
     Repeat("x", IdLength - 1), Repeat("x", IdLength), Repeat("z", IdLength)}

UrlStrings == {Flatten(parts) : parts \in SeqsUpTo(Pieces, MaxPieces)}

\* the pattern matches at position p: the keyword, then 22 alphanumerics
MatchesAt(keyword, url, p) ==
    /\ p + Len(keyword) + IdLength - 1 <= Len(url)
    /\ SubSeq(url, p, p + Len(keyword) - 1) = keyword
    /\ \A i \in 1..IdLength : url[p + Len(keyword) - 1 + i] \in AlphaNumeric

\* re.search(pattern, url): the leftmost match, scanning from position p;
\* 0 stands for None
RECURSIVE re_search(_, _, _)
re_search(keyword, url, p) ==
    IF p > Len(url) THEN 0
    ELSE IF MatchesAt(keyword, url, p) THEN p
    ELSE re_search(keyword, url, p + 1)

\* match.group(1)
Group1(keyword, url, p) == SubSeq(url, p + Len(keyword), p + Len(keyword) + IdLength - 1)

Info(type, id) == [content_type |-> type, content_id |-> id]

extract_album_first(url) ==
    LET track_match == re_search(track_pattern, url, 1)
        album_match == re_search(album_pattern, url, 1)
        playlist_match == re_search(playlist_pattern, url, 1)
    IN  IF album_match # 0 THEN Info("album", Group1(album_pattern, url, album_match))
        ELSE IF track_match # 0
        THEN Info("track", Group1(track_pattern, url, track_match))
        ELSE IF playlist_match # 0
        THEN Info("playlist", Group1(playlist_pattern, url, playlist_match))
        ELSE NoInfo

extract_spotify_info(url) ==
    LET track_match == re_search(track_pattern, url, 1)
        album_match == re_search(album_pattern, url, 1)
        playlist_match == re_search(playlist_pattern, url, 1)
    IN  IF track_match # 0 THEN Info("track", Group1(track_pattern, url, track_match))
        ELSE IF album_match # 0
        THEN Info("album", Group1(album_pattern, url, album_match))
        ELSE IF playlist_match # 0
        THEN Info("playlist", Group1(playlist_pattern, url, playlist_match))
        ELSE NoInfo

\* download_from_url: if not content_type: return False; then one branch
\* per content type
Dispatch(content_type) ==
    IF content_type = "None" THEN "none"
    ELSE IF content_type = "track" THEN "download_track"
    ELSE IF content_type = "album" THEN "download_album"
    ELSE IF content_type = "playlist" THEN "download_playlist"
    ELSE "none"

UrlInit ==
    /\ upc = "input"
    /\ input_url \in UrlStrings
    /\ extracted = NoInfo
    /\ handler = "none"
    /\ handled = FALSE
    /\ RunIdle
    /\ ScorerIdle
    /\ PlaylistIdle
    /\ SessionIdle
    /\ ChatIdle
    /\ SanitizeIdle

\* SpotifyDownloader.download_from_url up to the call of the handler
DownloadFromUrl ==
    /\ upc = "input"
    /\ LET got == extract_spotify_info(input_url) IN
          /\ extracted' = got
          /\ handler' = Dispatch(got.content_type)
          /\ handled' = (Dispatch(got.content_type) = "none")
    /\ upc' = "returned"
    /\ UNCHANGED input_url
    /\ UNCHANGED outsideUrl

UrlNext == DownloadFromUrl

SpecUrl == UrlInit /\ [][UrlNext]_vars

----------------------------------------------------------------------------
(* Properties of extract_spotify_info and download_from_url (SpecUrl) *)

Occurrences(keyword, url) == {p \in 1..Len(url) : MatchesAt(keyword, url, p)}
Leftmost(ps) == CHOOSE p \in ps : \A q \in ps : p <= q
IdAfter(keyword, url) ==
    LET p == Leftmost(Occurrences(keyword, url)) IN
    [i \in 1..IdLength |-> url[p + Len(keyword) - 1 + i]]

\* C26: extract_spotify_info returns the kind and the 22 alphanumeric
\* characters after 'track/', 'album/' or 'playlist/', looking for track
\* first, then album, then playlist, and (None, None) when none occurs;
\* download_from_url calls the handler of that kind and no other, and
\* returns False without calling a handler for (None, None).
C26_ExtractIsPatternMatchAndDispatchFollows ==
    upc = "returned" =>
        LET tracks_at == Occurrences(track_pattern, input_url)
            albums_at == Occurrences(album_pattern, input_url)
            playlists_at == Occurrences(playlist_pattern, input_url)
        IN  /\ tracks_at # {} =>
                  /\ extracted = Info("track", IdAfter(track_pattern, input_url))
                  /\ handler = "download_track"
            /\ (tracks_at = {} /\ albums_at # {}) =>
                  /\ extracted = Info("album", IdAfter(album_pattern, input_url))
                  /\ handler = "download_album"
            /\ (tracks_at = {} /\ albums_at = {} /\ playlists_at # {}) =>
                  /\ extracted = Info("playlist", IdAfter(playlist_pattern, input_url))
                  /\ handler = "download_playlist"
            /\ (tracks_at = {} /\ albums_at = {} /\ playlists_at = {}) =>
                  /\ extracted = NoInfo
                  /\ handler = "none"
            /\ handled <=> extracted = NoInfo

\* C26 witness: a URL with an album id first and a track id after it: the
\* track wins.
C26_Witness ==
    /\ upc = "returned"
    /\ input_url = album_pattern \o Repeat("x", IdLength)
                     \o track_pattern \o Repeat("z", IdLength)
    /\ extracted = Info("track", Repeat("z", IdLength))
    /\ handler = "download_track"

====
